---- MODULE Spec2Model ----
(***************************************************************************)
(* Model of ethereum/tools/stateless_client.py: the conflict grouper       *)
(* (group_txs), the compact merkle branch reconstruction                   *)
(* (store_merkle_branch_nodes), the proof wrapper and bundle builders and  *)
(* the bundle verifier (verify_tx_bundle).                                 *)
(***************************************************************************)
EXTENDS Integers, Sequences, FiniteSets, TLC

\* Number of distinct account addresses of the model.
NumAccts == 2
\* Longest transaction list handed to group_txs.
MaxTxs == 4
\* Largest account balance of the model.
MaxBalance == 1
\* Most transactions of a block that gets its bundles attached.
MaxBlock == 3
\* Most verify_tx_bundle calls made one after the other.
MaxCalls == 2
\* Number of bits of a trie key (the width of sha3, scaled down).
KeyBits == 4

VARIABLES
    txs,      \* group_txs: the list handed in (transaction objects, by identity)
    rwul,     \* heap: tx object -> the set object tx.read_write_union_list
    rwul0,    \* the value of rwul when group_txs was called
    groups,   \* group_txs: the returned list of groups
    gpc,      \* "ready" before the call, "done" after it returned
    world,    \* the full node's state: account -> [present, balance, code]
    onabsent, \* what trie._get_branch does for an absent key: "raise" or "branch"
    branch,   \* the merkle branch at hand
    bkey,     \* the account the branch was requested for
    bpc,      \* "idle", "got" (branch fetched), "stored" / "failed"
    bdb,      \* the db handed to store_merkle_branch_nodes
    bres,     \* what store_merkle_branch_nodes gave back
    nmut,     \* number of times the branch was changed on the way (0 or 1)
    vbundle,  \* the bundle built for the verifier, as it reaches it
    vroot,    \* verify_tx_bundle: the state_root argument
    vpc,      \* verify_tx_bundle: where the call is
    vk,       \* verify_tx_bundle: the wrapper the loops are at
    edb,      \* verify_tx_bundle: the ephemeral store of the call
    vlog,     \* verify_tx_bundle: what the call has done so far, in order
    vres,     \* verify_tx_bundle: how the call ended
    vmut,     \* what was changed in the bundle: "none", "raw", "step", "root",
              \* "updated"
    vcalls,   \* number of verify_tx_bundle calls begun so far
    vold,     \* the keys that earlier verify_tx_bundle calls wrote to their stores
    cpost,    \* mk_confirmed_tx_bundle: the world after the transaction
    ctx,      \* mk_confirmed_tx_bundle: the transaction
    ccoinbase,\* mk_confirmed_tx_bundle: the coinbase
    cres,     \* mk_confirmed_tx_bundle: [err, bundle]
    cpc,      \* "idle" before the call, "done" after it
    wacct,    \* mk_account_proof_wrapper: the account asked for
    wres,     \* mk_account_proof_wrapper: [err, wrapper]
    ablock,   \* attach: target_block.transactions
    aheap,    \* attach: tx position -> the set object tx.read_write_union_list
    acoinbase,\* attach: target_block.header.coinbase
    acache,   \* attach: the accounts as the state object has them (applied)
    atrie,    \* attach: the accounts as the state trie has them (committed)
    agroups,  \* attach: grouped_txs
    ai,       \* attach: the group the outer loop is at
    aj,       \* attach: the transaction of the group the inner loop is at
    anumber,  \* attach: the local block_number
    alist,    \* attach: the local tx_bundle_list
    aattached,\* attach: target_block.tx_bundle_list, [set, list]
    alog,     \* attach: what the call has done so far, in order
    aerr,     \* attach: the exception that ended the call, if any
    apc       \* attach: where the call is

gvars == <<txs, rwul, rwul0, groups, gpc>>
bvars == <<branch, bkey, bpc, bdb, bres, nmut>>
vvars == <<vbundle, vroot, vpc, vk, edb, vlog, vres, vmut, vcalls, vold>>
cvars == <<cpost, ctx, ccoinbase, cres, cpc, wacct, wres>>
avars == <<ablock, aheap, acoinbase, acache, atrie, agroups, ai, aj, anumber, alist,
           aattached, alog, aerr, apc>>
fvars == <<world, onabsent>>
vars == <<gvars, fvars, bvars, vvars, cvars, avars>>

\* An address is a byte string; here two bytes.
Address(i) == <<1, i>>
Accounts == {Address(i) : i \in 1..NumAccts}

(***************************************************************************)
(* Byte strings, hashing and the binary trie (ethereum.trie)               *)
(***************************************************************************)

\* A byte string: its first byte t (-1 when the string is empty) and the rest
\* as the fields a trie node or a branch step is made of: an encoded path p,
\* two 32-byte hashes l and r, a number v.
Bytes(t, p, l, r, v) == [t |-> t, p |-> p, l |-> l, r |-> r, v |-> v]
EmptyBytes == Bytes(-1, <<>>, <<>>, <<>>, 0)

\* sha3: collision-free, so a hash stands for the one string that has it.
sha3(x) == <<x>>
\* The root of the empty trie (b'').
BLANK_ROOT == <<>>

KV_TYPE == 0
BRANCH_TYPE == 1
\* First byte of an rlp-encoded account (a long list) and of a code blob.
RlpListByte == 248
CodeByte == 96

RECURSIVE NatToBits(_, _)
NatToBits(n, len) ==
    IF len = 0 THEN <<>> ELSE Append(NatToBits(n \div 2, len - 1), n % 2)
RECURSIVE BitsToNat(_)
BitsToNat(bits) ==
    IF bits = <<>> THEN 0
    ELSE 2 * BitsToNat(SubSeq(bits, 1, Len(bits) - 1)) + bits[Len(bits)]

\* Paths are packed: the number of bits and the bits as a number.
encode_bin_path(bits) == <<Len(bits), BitsToNat(bits)>>
decode_bin_path(e) == IF e = <<>> THEN <<>> ELSE NatToBits(e[2], e[1])

encode_kv_node(keypath, node) == Bytes(KV_TYPE, encode_bin_path(keypath), node, <<>>, 0)
encode_branch_node(left, right) == Bytes(BRANCH_TYPE, <<>>, left, right, 0)

\* The code blob number c; number 0 is no code (b'').
CodeBytes(c) == IF c = 0 THEN EmptyBytes ELSE Bytes(CodeByte, <<>>, <<>>, <<>>, c)
\* rlp.encode(account): the balance and the hash of the code.
AcctRlp(a) == Bytes(RlpListByte, <<>>, sha3(CodeBytes(a.code)), <<>>, a.balance)
\* rlp.decode(acct_rlpdata, Account, env).code: the code is looked up by its
\* hash in the env's db.
AccountCode(db, rlpdata) == db[rlpdata.l]

\* The key objects: addresses, and the single bytes that iterating over an
\* address yields.
ByteKeys == {<<b>> : b \in 1..NumAccts}
\* trie.encode_bin(sha3(acct)): the bits of the hash, one path per key.  The
\* hashes of two keys differ in more than one bit (here: the bits of the
\* key's number and their parity), so no two keys end in sibling subtrees
\* that look alike.
KeyIndex(k) == IF Len(k) = 2 THEN k[2] - 1 ELSE NumAccts + k[1] - 1
RECURSIVE Parity(_)
Parity(bits) == IF bits = <<>> THEN 0 ELSE (Head(bits) + Parity(Tail(bits))) % 2
KeyPath(k) ==
    LET bits == NatToBits(KeyIndex(k), KeyBits - 1)
    IN  Append(bits, Parity(bits))

Drop(s, n) == SubSeq(s, n + 1, Len(s))
Take(s, n) == SubSeq(s, 1, n)
IsPrefix(p, s) == Len(p) <= Len(s) /\ Take(s, Len(p)) = p

\* The longest common prefix of a non-empty set of equally long paths.
CommonPrefix(paths) ==
    LET one == CHOOSE p \in paths : TRUE
        n == CHOOSE n \in 0..Len(one) :
                 /\ \A p \in paths : Take(p, n) = Take(one, n)
                 /\ \A m \in (n + 1)..Len(one) : \E p \in paths : Take(p, m) # Take(one, m)
    IN  Take(one, n)

\* The root hash of the trie holding the pairs <<path, value>>.
RECURSIVE TrieRoot(_)
TrieRoot(kvs) ==
    IF kvs = {} THEN BLANK_ROOT
    ELSE LET cp == CommonPrefix({kv[1] : kv \in kvs})
         IN  IF \E kv \in kvs : kv[1] = <<>>
             THEN sha3((CHOOSE kv \in kvs : TRUE)[2])
             ELSE IF cp # <<>>
             THEN sha3(encode_kv_node(cp,
                      TrieRoot({<<Drop(kv[1], Len(cp)), kv[2]>> : kv \in kvs})))
             ELSE sha3(encode_branch_node(
                      TrieRoot({<<Tail(kv[1]), kv[2]>> : kv \in {x \in kvs : x[1][1] = 0}}),
                      TrieRoot({<<Tail(kv[1]), kv[2]>> : kv \in {x \in kvs : x[1][1] = 1}})))

\* The strings stored for the trie under hash h.
RECURSIVE SubNodes(_)
SubNodes(h) ==
    IF h = <<>> THEN {}
    ELSE {h[1]} \cup
         (IF h[1].t = KV_TYPE THEN SubNodes(h[1].l)
          ELSE IF h[1].t = BRANCH_TYPE THEN SubNodes(h[1].l) \cup SubNodes(h[1].r)
          ELSE {})

\* A db is a function from hashes to the strings stored under them.
DbOf(strings) == [h \in {sha3(x) : x \in strings} |-> h[1]]
DbPut(db, k, x) == [h \in DOMAIN db \cup {k} |-> IF h = k THEN x ELSE db[h]]
hash_and_save(db, node) == DbPut(db, sha3(node), node)

\* The full node's state trie and db for a world.
Present(w) == {a \in Accounts : w[a].present}
StateRoot(w) == TrieRoot({<<KeyPath(a), AcctRlp(w[a])>> : a \in Present(w)})
StateDb(w) ==
    DbOf(SubNodes(StateRoot(w)) \cup {CodeBytes(w[a].code) : a \in Accounts})

\* trie._get(db, node, keypath): [err, val]; an absent key reads as empty.
RECURSIVE TrieGet(_, _, _)
TrieGet(db, node, keypath) ==
    IF node \notin DOMAIN db THEN [err |-> "KeyError", val |-> EmptyBytes]
    ELSE IF keypath = <<>> THEN [err |-> "", val |-> db[node]]
    ELSE LET n == db[node]
         IN  IF n.t = KV_TYPE
             THEN IF IsPrefix(decode_bin_path(n.p), keypath)
                  THEN TrieGet(db, n.l, Drop(keypath, Len(decode_bin_path(n.p))))
                  ELSE [err |-> "", val |-> EmptyBytes]
             ELSE IF n.t = BRANCH_TYPE
             THEN IF keypath[1] = 0
                  THEN TrieGet(db, n.l, Tail(keypath))
                  ELSE TrieGet(db, n.r, Tail(keypath))
             ELSE [err |-> "BadNode", val |-> EmptyBytes]

\* What trie._get_branch does when the key is absent (the kv node on the way
\* has another path): it raises, or it returns the steps down to that kv
\* node followed by the node below it (the nearest existing path).
AbsentKeyBehaviours == {"raise", "branch"}

\* trie._get_branch(db, node, keypath): [err, branch], the steps from the
\* root down: marker 1 with a path, marker 2 with the right sibling (the
\* path goes left), marker 3 with the left sibling, and last the value.
RECURSIVE GetBranch(_, _, _)
GetBranch(db, node, keypath) ==
    IF node \notin DOMAIN db THEN [err |-> "KeyError", branch |-> <<>>]
    ELSE IF keypath = <<>> THEN [err |-> "", branch |-> <<db[node]>>]
    ELSE LET n == db[node]
             sub == IF n.t = KV_TYPE
                    THEN GetBranch(db, n.l, Drop(keypath, Len(decode_bin_path(n.p))))
                    ELSE IF keypath[1] = 0
                    THEN GetBranch(db, n.l, Tail(keypath))
                    ELSE GetBranch(db, n.r, Tail(keypath))
             step == IF n.t = KV_TYPE THEN Bytes(1, n.p, <<>>, <<>>, 0)
                     ELSE IF keypath[1] = 0 THEN Bytes(2, <<>>, n.r, <<>>, 0)
                     ELSE Bytes(3, <<>>, n.l, <<>>, 0)
         IN  IF n.t = KV_TYPE /\ ~IsPrefix(decode_bin_path(n.p), keypath)
             THEN IF onabsent = "raise" THEN [err |-> "NotFound", branch |-> <<>>]
                  ELSE IF n.l \notin DOMAIN db THEN [err |-> "KeyError", branch |-> <<>>]
                  ELSE [err |-> "", branch |-> <<step, db[n.l]>>]
             ELSE IF n.t \notin {KV_TYPE, BRANCH_TYPE}
             THEN [err |-> "BadNode", branch |-> <<>>]
             ELSE IF sub.err # "" THEN sub
             ELSE [err |-> "", branch |-> <<step>> \o sub.branch]

(***************************************************************************)
(* get_merkle_proof, verify_merkle_proof, store_merkle_branch_nodes        *)
(***************************************************************************)

\* get_merkle_proof(db, root, value): [err, branch].
get_merkle_proof(db, root, value) ==
    IF DOMAIN db = {} \/ root = BLANK_ROOT \/ value = <<>>
    THEN [err |-> "AssertionError", branch |-> <<>>]
    ELSE GetBranch(db, root, KeyPath(value))

\* The markers store_merkle_branch_nodes recognises (lines 33-39).
Markers == {1, 2, 3}

\* A step that rebuilds every branch node as if the path went right.
StepNodeSameSide(data, below) ==
    IF data.t = 1 THEN encode_kv_node(decode_bin_path(data.p), sha3(below))
    ELSE encode_branch_node(data.l, sha3(below))

\* The node a step makes of the node below it (lines 33-39).
StepNode(data, below) ==
    IF data.t = 1 THEN encode_kv_node(decode_bin_path(data.p), sha3(below))
    ELSE IF data.t = 2 THEN encode_branch_node(sha3(below), data.l)
    ELSE encode_branch_node(data.l, sha3(below))

\* A check of the marker that lets an unknown marker through as marker 3.
StepErrNoElse(data) ==
    IF data.t = 1 /\ decode_bin_path(data.p) = <<>> THEN "AssertionError"
    ELSE IF data.t # 1 /\ data.l = <<>> THEN "AssertionError"
    ELSE ""

\* What stops a step: an unknown marker (line 41), or a payload the node
\* encoders refuse (an empty path, a sibling that is no 32-byte hash).
StepErr(data) ==
    IF data.t \notin Markers THEN "CorruptedBranch"
    ELSE IF data.t = 1 /\ decode_bin_path(data.p) = <<>> THEN "AssertionError"
    ELSE IF data.t \in {2, 3} /\ data.l = <<>> THEN "AssertionError"
    ELSE ""

\* A loop that builds the nodes and saves none of them.
RECURSIVE StoreLoopNoSave(_, _, _)
StoreLoopNoSave(st, br, i) ==
    IF i = 0 THEN st
    ELSE IF StepErr(br[i]) # "" THEN [st EXCEPT !.err = StepErr(br[i])]
    ELSE StoreLoopNoSave([db |-> st.db, top |-> StepNode(br[i], st.top), err |-> ""],
                         br, i - 1)

\* The loop of lines 31-42, from step i down to step 1; st.top is nodes[0].
RECURSIVE StoreLoop(_, _, _)
StoreLoop(st, br, i) ==
    IF i = 0 THEN st
    ELSE IF StepErr(br[i]) # "" THEN [st EXCEPT !.err = StepErr(br[i])]
    ELSE LET n == StepNode(br[i], st.top)
         IN  StoreLoop([db |-> hash_and_save(st.db, n), top |-> n, err |-> ""],
                       br, i - 1)

\* The value of a call that has no return statement.
None == [none |-> TRUE, val |-> <<>>]

\* A store that is left as it was when a step fails.
store_merkle_branch_nodes_atomic(db, br) ==
    IF br = <<>> THEN [db |-> db, err |-> "IndexError", ret |-> None, top |-> EmptyBytes]
    ELSE LET st == StoreLoop([db |-> hash_and_save(db, br[Len(br)]),
                              top |-> br[Len(br)], err |-> ""], br, Len(br) - 1)
         IN  [db |-> IF st.err = "" THEN st.db ELSE db,
              err |-> st.err, ret |-> None, top |-> st.top]

\* store_merkle_branch_nodes(db, branch): the db as the call leaves it, the
\* exception raised if any, the returned value and nodes[0] at the end.
store_merkle_branch_nodes(db, br) ==
    IF br = <<>> THEN [db |-> db, err |-> "IndexError", ret |-> None, top |-> EmptyBytes]
    ELSE LET st == StoreLoop([db |-> hash_and_save(db, br[Len(br)]),
                              top |-> br[Len(br)], err |-> ""], br, Len(br) - 1)
         IN  [db |-> st.db, err |-> st.err, ret |-> None, top |-> st.top]

\* The nodes a branch reconstructs to, outermost first (no db involved).
RECURSIVE Reconstruct(_, _)
Reconstruct(br, i) ==
    IF i = Len(br) THEN <<br[i]>>
    ELSE LET rest == Reconstruct(br, i + 1)
         IN  <<StepNode(br[i], rest[1])>> \o rest

SeqRange(s) == {s[i] : i \in 1..Len(s)}

\* trie._verify_branch(branch, root, keypath, value): true iff the branch
\* reconstructs to root and the value read at keypath in the reconstructed
\* nodes is value.
VerifyBranch(br, root, keypath, value) ==
    /\ \A i \in 1..(Len(br) - 1) : StepErr(br[i]) = ""
    /\ LET nodes == Reconstruct(br, 1)
           got == TrieGet(DbOf(SeqRange(nodes)), root, keypath)
       IN  /\ sha3(nodes[1]) = root
           /\ got.err = ""
           /\ got.val = value

\* verify_merkle_proof(branch, root, key, value); key is already a hash, so
\* it is given here as the account it is the hash of.
verify_merkle_proof(br, root, acct, value) ==
    IF br = <<>> \/ root = BLANK_ROOT THEN [err |-> "AssertionError", ok |-> FALSE]
    ELSE [err |-> "", ok |-> VerifyBranch(br, root, KeyPath(acct), value)]

(***************************************************************************)
(* Branches as they arrive: genuine, or changed on the way                 *)
(***************************************************************************)

BadMarkers == {0, 4}

\* The first account is a contract (its code is blob 1), the others hold no
\* code; an account is absent or holds a balance.
CodeOf(a) == IF a = Address(1) THEN 1 ELSE 0
Absent == [present |-> FALSE, balance |-> 0, code |-> 0]
Worlds ==
    {[a \in Accounts |-> IF f[a] < 0 THEN Absent
                         ELSE [present |-> TRUE, balance |-> f[a], code |-> CodeOf(a)]]
     : f \in [Accounts -> -1..MaxBalance]}
\* The states a block is attached on: an account is not there or holds the
\* most it can.
StartWorlds == {w \in Worlds : \A a \in Accounts : w[a].present => w[a].balance = MaxBalance}
\* Account bytes a forger has at hand.
AccountValues ==
    {[present |-> TRUE, balance |-> b, code |-> 0] : b \in 0..MaxBalance}

\* Hashes and paths a forger has at hand.
SomeHashes == {sha3(EmptyBytes)}
SomePaths == {encode_bin_path(<<b>>) : b \in {0, 1}}

\* The branches that differ from br in one step: another marker of the same
\* payload shape or an unknown one, another sibling, another path, another
\* leaf value.
StepChanges(data, last) ==
    IF last THEN {[data EXCEPT !.t = m] : m \in BadMarkers}
                 \cup {AcctRlp(v) : v \in AccountValues} \cup {EmptyBytes}
    ELSE IF data.t = 1
    THEN {[data EXCEPT !.t = m] : m \in BadMarkers}
         \cup {[data EXCEPT !.p = q] : q \in SomePaths}
    ELSE {[data EXCEPT !.t = m] : m \in BadMarkers \cup {2, 3}}
         \cup {[data EXCEPT !.l = h] : h \in SomeHashes}
BranchChanges(br) ==
    UNION {{[br EXCEPT ![i] = d] : d \in StepChanges(br[i], i = Len(br)) \ {br[i]}}
           : i \in 1..Len(br)}
\* The branches that are the last k steps of br (the branch of a subtree).
Suffixes(br) == {SubSeq(br, Len(br) - k + 1, Len(br)) : k \in 1..(Len(br) - 1)}

\* The store of a fresh verification: only the empty value (line 131).
SeededDb == DbPut(<<>>, sha3(EmptyBytes), EmptyBytes)

NoResult == [kind |-> "none", value |-> FALSE, err |-> ""]
Raised(e) == [kind |-> "raised", value |-> FALSE, err |-> e]
Returned(v) == [kind |-> "returned", value |-> v, err |-> ""]

NoWrapper == [acct_rlpdata |-> EmptyBytes, merkle_proof |-> <<>>, code |-> EmptyBytes]

NoBundle ==
    [tx_rlpdata |-> <<>>, block_number |-> 0, state_root |-> BLANK_ROOT,
     read_list_proof |-> <<>>, write_list_proof |-> <<>>]

IdleVerify ==
    /\ vbundle = NoBundle
    /\ vroot = BLANK_ROOT
    /\ vpc = "idle"
    /\ vk = 0
    /\ edb = <<>>
    /\ vlog = <<>>
    /\ vres = NoResult
    /\ vmut = "none"
    /\ vcalls = 0
    /\ vold = {}

IdleBuild ==
    /\ cpost = [a \in Accounts |-> Absent]
    /\ ctx = <<>>
    /\ ccoinbase = <<>>
    /\ cres = [err |-> "", bundle |-> NoBundle]
    /\ cpc = "idle"
    /\ wacct = <<>>
    /\ wres = [err |-> "", wrapper |-> NoWrapper]

IdleAttach ==
    /\ ablock = <<>>
    /\ aheap = <<>>
    /\ acoinbase = <<>>
    /\ acache = [a \in Accounts |-> Absent]
    /\ atrie = [a \in Accounts |-> Absent]
    /\ agroups = <<>>
    /\ ai = 0
    /\ aj = 0
    /\ anumber = 0
    /\ alist = <<>>
    /\ aattached = [set |-> FALSE, list |-> <<>>]
    /\ alog = <<>>
    /\ aerr = ""
    /\ apc = "idle"

IdleGroup ==
    /\ txs = <<>>
    /\ rwul = <<>>
    /\ rwul0 = <<>>
    /\ groups = <<>>
    /\ gpc = "idle"

IdleBranch ==
    /\ branch = <<>>
    /\ bkey = <<>>
    /\ bpc = "idle"
    /\ bdb = SeededDb
    /\ bres = [db |-> SeededDb, err |-> "", ret |-> None, top |-> EmptyBytes]
    /\ nmut = 0

InitBranch ==
    /\ world \in {w \in Worlds : Present(w) # {}}
    /\ onabsent \in AbsentKeyBehaviours
    /\ IdleBranch
    /\ IdleAttach
    /\ IdleGroup
    /\ IdleVerify
    /\ IdleBuild

\* The full node hands out the branch of an account.
GetMerkleProof(a) ==
    /\ bpc = "idle"
    /\ LET r == get_merkle_proof(StateDb(world), StateRoot(world), a)
       IN  /\ branch' = r.branch
           /\ bpc' = IF r.err = "" THEN "got" ELSE r.err
    /\ bkey' = a
    /\ UNCHANGED <<bdb, bres, nmut, fvars, avars, gvars, vvars, cvars>>

\* The branch is changed on the way: one step of it, or it is cut down to the
\* branch of a subtree, or both.
TamperBranch ==
    /\ bpc = "got"
    /\ nmut = 0
    /\ branch' \in BranchChanges(branch) \cup Suffixes(branch)
                    \cup UNION {BranchChanges(s) : s \in Suffixes(branch)}
    /\ nmut' = nmut + 1
    /\ UNCHANGED <<bkey, bpc, bdb, bres, fvars, avars, gvars, vvars, cvars>>

\* store_merkle_branch_nodes(bdb, branch) is called.
StoreBranch ==
    /\ bpc = "got"
    /\ LET r == store_merkle_branch_nodes(bdb, branch)
       IN  /\ bdb' = r.db
           /\ bres' = r
           /\ bpc' = IF r.err = "" THEN "stored" ELSE "raised"
    /\ UNCHANGED <<branch, bkey, nmut, fvars, avars, gvars, vvars, cvars>>

NextBranch ==
    \/ \E a \in Accounts : GetMerkleProof(a)
    \/ TamperBranch
    \/ StoreBranch

SpecBranch == InitBranch /\ [][NextBranch]_vars

(***************************************************************************)
(* Transactions and the execution engine (ethereum.transactions, messages) *)
(***************************************************************************)

\* A transfer of value from sender to to, with its access lists.
Transfer(s, t, v) ==
    [sender |-> s, to |-> t, value |-> v, read_list |-> <<s>>, write_list |-> <<s, t>>]
Txs == {Transfer(s, t, 1) : s \in Accounts, t \in Accounts} \
           {Transfer(s, s, 1) : s \in Accounts}
\* A call reads the recipient as well.
Call(s, t, v) == [Transfer(s, t, v) EXCEPT !.read_list = <<s, t>>]
\* The transactions a block may hold: transfers and calls of any value.
BlockTxs ==
    {tx \in {Transfer(s, t, v) : s \in Accounts, t \in Accounts, v \in 0..MaxBalance}
             \cup {Call(s, t, v) : s \in Accounts, t \in Accounts, v \in 0..MaxBalance}
     : tx.sender # tx.to}

\* rlp.encode(tx, Transaction) and rlp.decode(data, Transaction): the fields
\* in order.
TxRlp(tx) == <<tx.sender, tx.to, tx.value, tx.read_list, tx.write_list>>
TxDecode(d) ==
    [sender |-> d[1], to |-> d[2], value |-> d[3], read_list |-> d[4], write_list |-> d[5]]

\* apply_transaction(state, tx) on a state that reads its accounts from db
\* under root: [err, success].  The engine reads the sender through the trie
\* and accepts the transfer when the balance covers the value.
apply_transaction(db, root, tx) ==
    LET got == TrieGet(db, root, KeyPath(tx.sender))
    IN  IF got.err # "" THEN [err |-> got.err, success |-> FALSE]
        ELSE [err |-> "", success |-> got.val # EmptyBytes /\ got.val.v >= tx.value]

(***************************************************************************)
(* mk_account_proof_wrapper, mk_pending_tx_bundle                          *)
(***************************************************************************)


\* mk_account_proof_wrapper(state_trie_db, state_env, state_root, acct):
\* [err, wrapper].
mk_account_proof_wrapper(db, root, acct) ==
    LET data == TrieGet(db, root, KeyPath(acct))
        proof == get_merkle_proof(db, root, acct)
    IN  IF data.err # "" THEN [err |-> data.err, wrapper |-> NoWrapper]
        ELSE IF proof.err # "" THEN [err |-> proof.err, wrapper |-> NoWrapper]
        ELSE [err |-> "",
              wrapper |-> [acct_rlpdata |-> data.val,
                           merkle_proof |-> proof.branch,
                           code |-> IF data.val # EmptyBytes
                                    THEN AccountCode(db, data.val)
                                    ELSE EmptyBytes]]

\* One list of proofs: a {acct: wrapper} entry per account of accts, in
\* order; the first wrapper that cannot be made ends the build.
ProofList(db, root, accts) ==
    LET made == [i \in 1..Len(accts) |-> mk_account_proof_wrapper(db, root, accts[i])]
    IN  IF \E i \in 1..Len(accts) : made[i].err # ""
        THEN [err |-> made[CHOOSE i \in 1..Len(accts) :
                               /\ made[i].err # ""
                               /\ \A j \in 1..(i - 1) : made[j].err = ""].err,
              list |-> <<>>]
        ELSE [err |-> "",
              list |-> [i \in 1..Len(accts) |-> [acct |-> accts[i], wrapper |-> made[i].wrapper]]]

\* mk_pending_tx_bundle(state, tx, latest_blk_number, latest_blk_state_root):
\* [err, bundle].
mk_pending_tx_bundle(db, tx, number, root) ==
    LET reads == ProofList(db, root, tx.read_list)
        writes == ProofList(db, root, tx.write_list)
    IN  [err |-> IF reads.err # "" THEN reads.err ELSE writes.err,
         bundle |-> [tx_rlpdata |-> TxRlp(tx),
                     block_number |-> number,
                     state_root |-> root,
                     read_list_proof |-> reads.list,
                     write_list_proof |-> writes.list]]

(***************************************************************************)
(* verify_tx_bundle                                                        *)
(***************************************************************************)

\* A verifier that goes through the updated-account proofs as well.
WrappersAndUpdated(b) ==
    b.read_list_proof \o b.write_list_proof
        \o (IF "updated_acct_proof" \in DOMAIN b THEN b.updated_acct_proof ELSE <<>>)

\* The wrappers in the order the two loops of lines 136-152 visit them.
Wrappers(b) == b.read_list_proof \o b.write_list_proof

\* An assert that is not evaluated.
AssertHoldsSkipped(result) == TRUE
\* assert <result of verify_merkle_proof> (lines 138, 147).
AssertHolds(result) == result.err = "" /\ result.ok

\* An assert on the roots that is not evaluated.
RootAssertSkipped(state_root, b) == TRUE
\* assert state_root == tx_bundle["state_root"] (line 135).
RootAssert(state_root, b) == state_root = b.state_root

\* A verification that always looks at the first wrapper.
CheckWrapperFirst(b, k) ==
    LET e == Wrappers(b)[1]
    IN  verify_merkle_proof(e.wrapper.merkle_proof, b.state_root, e.acct,
                            e.wrapper.acct_rlpdata)

\* The verification lines 138-139 run for wrapper k of bundle b.
CheckWrapper(b, k) ==
    LET e == Wrappers(b)[k]
    IN  verify_merkle_proof(e.wrapper.merkle_proof, b.state_root, e.acct,
                            e.wrapper.acct_rlpdata)

\* A call that goes on with the store the call before it left.
EphemDBReused(old) == old
\* EphemDB() (line 130): a new, empty store, whatever the store of the call
\* before held.
EphemDB(old) == <<>>

\* Lines 141-142: the code blob, if any, goes in under its hash.
PutCode(db, w) == IF w.code # EmptyBytes THEN DbPut(db, sha3(w.code), w.code) ELSE db


InitVerify ==
    /\ world \in {w \in Worlds : Present(w) # {}}
    /\ onabsent \in AbsentKeyBehaviours
    /\ IdleVerify
    /\ IdleAttach
    /\ IdleBuild
    /\ IdleBranch
    /\ IdleGroup

\* The full node builds the pending bundle of tx at its state root.
BuildPendingBundle(tx) ==
    /\ vpc = "idle"
    /\ LET r == mk_pending_tx_bundle(StateDb(world), tx, 1, StateRoot(world))
       IN  /\ vbundle' = IF r.err = "" THEN r.bundle ELSE NoBundle
           /\ vpc' = IF r.err = "" THEN "built" ELSE r.err
    /\ UNCHANGED <<vroot, vk, edb, vlog, vres, vmut, vcalls, vold, fvars, avars, gvars, bvars, cvars>>

\* Bundle b with wrapper k replaced by w.
SetWrapper(b, k, w) ==
    IF k <= Len(b.read_list_proof)
    THEN [b EXCEPT !.read_list_proof[k].wrapper = w]
    ELSE [b EXCEPT !.write_list_proof[k - Len(b.read_list_proof)].wrapper = w]

\* Roots a bundle may claim instead of the genuine one.
OtherRoots(root) == ({sha3(EmptyBytes)} \cup {sha3(n) : n \in SubNodes(root)}) \ {root}

\* One thing of the bundle is changed on its way to the verifier: the raw
\* account bytes of one wrapper, one step of one branch, or the claimed root.
TamperBundle ==
    /\ vpc = "built"
    /\ vmut = "none"
    /\ \/ \E k \in 1..Len(Wrappers(vbundle)) :
            \E v \in ({AcctRlp(a) : a \in AccountValues} \cup {EmptyBytes})
                         \ {Wrappers(vbundle)[k].wrapper.acct_rlpdata} :
               /\ vbundle' = SetWrapper(vbundle, k,
                                 [Wrappers(vbundle)[k].wrapper EXCEPT !.acct_rlpdata = v])
               /\ vmut' = "raw"
       \/ \E k \in 1..Len(Wrappers(vbundle)) :
            \E br \in BranchChanges(Wrappers(vbundle)[k].wrapper.merkle_proof) :
               /\ vbundle' = SetWrapper(vbundle, k,
                                 [Wrappers(vbundle)[k].wrapper EXCEPT !.merkle_proof = br])
               /\ vmut' = "step"
       \/ \E r \in OtherRoots(vbundle.state_root) :
               /\ vbundle' = [vbundle EXCEPT !.state_root = r]
               /\ vmut' = "root"
    /\ UNCHANGED <<vroot, vpc, vk, edb, vlog, vres, vcalls, vold, fvars, avars, gvars, bvars, cvars>>

\* verify_tx_bundle is called with the genuine root: lines 130-135.
VerifyBegin ==
    /\ vpc = "built"
    /\ vroot' = StateRoot(world)
    /\ edb' = DbPut(EphemDB(edb), sha3(EmptyBytes), EmptyBytes)
    /\ vlog' = <<<<"seed", 0>>>>
    /\ IF RootAssert(StateRoot(world), vbundle)
       THEN /\ vpc' = IF Wrappers(vbundle) = <<>> THEN "replay" ELSE "check"
            /\ vk' = 1
            /\ vres' = NoResult
       ELSE /\ vpc' = "raised"
            /\ vk' = 0
            /\ vres' = Raised("AssertionError")
    /\ vcalls' = vcalls + 1
    /\ UNCHANGED <<vbundle, vmut, vold, fvars, avars, gvars, bvars, cvars>>

\* Lines 138-139 (147-148): the proof of wrapper vk is verified.
CheckProof ==
    /\ vpc = "check"
    /\ vlog' = Append(vlog, <<"check", vk>>)
    /\ IF AssertHolds(CheckWrapper(vbundle, vk))
       THEN vpc' = "store" /\ vres' = NoResult
       ELSE vpc' = "raised" /\ vres' = Raised("AssertionError")
    /\ UNCHANGED <<vbundle, vroot, vk, edb, vmut, vcalls, vold, fvars, avars, gvars, bvars, cvars>>

\* Lines 141-143 (150-152): the code and the branch nodes of wrapper vk are
\* written to the ephemeral store.
StoreWrapper ==
    /\ vpc = "store"
    /\ LET w == Wrappers(vbundle)[vk].wrapper
           r == store_merkle_branch_nodes(PutCode(edb, w), w.merkle_proof)
       IN  /\ edb' = r.db
           /\ vlog' = Append(vlog, <<"store", vk>>)
           /\ IF r.err # ""
              THEN vpc' = "raised" /\ vres' = Raised(r.err) /\ vk' = vk
              ELSE IF vk < Len(Wrappers(vbundle))
              THEN vpc' = "check" /\ vres' = NoResult /\ vk' = vk + 1
              ELSE vpc' = "replay" /\ vres' = NoResult /\ vk' = vk
    /\ UNCHANGED <<vbundle, vroot, vmut, vcalls, vold, fvars, avars, gvars, bvars, cvars>>

\* Lines 155-157: the transaction is decoded and replayed on the ephemeral
\* state, and its success flag returned.
ReplayTx ==
    /\ vpc = "replay"
    /\ vlog' = Append(vlog, <<"replay", 0>>)
    /\ LET r == apply_transaction(edb, vroot, TxDecode(vbundle.tx_rlpdata))
       IN  /\ vres' = IF r.err # "" THEN Raised(r.err) ELSE Returned(r.success)
           /\ vpc' = IF r.err # "" THEN "raised" ELSE "returned"
    /\ UNCHANGED <<vbundle, vroot, vk, edb, vmut, vcalls, vold, fvars, avars, gvars, bvars, cvars>>

NextVerify ==
    \/ \E tx \in Txs : BuildPendingBundle(tx)
    \/ TamperBundle
    \/ VerifyBegin
    \/ CheckProof
    \/ StoreWrapper
    \/ ReplayTx

SpecVerify == InitVerify /\ [][NextVerify]_vars

(***************************************************************************)
(* mk_confirmed_tx_bundle                                                  *)
(***************************************************************************)

\* tx.read_write_union_list of a transaction object nobody has touched: the
\* accounts of its read list and of its write list.
ReadWriteUnion(tx) == SeqRange(tx.read_list) \cup SeqRange(tx.write_list)

\* The engine accepts tx on the accounts w: the sender can pay.
Pays(w, tx) == w[tx.sender].present /\ w[tx.sender].balance >= tx.value

\* The accounts after the value of tx has moved (if the sender can pay).
Moved(w, tx) ==
    IF Pays(w, tx)
    THEN LET debited == [w EXCEPT ![tx.sender].balance = @ - tx.value]
         IN  [debited EXCEPT ![tx.to] = [present |-> TRUE,
                                         balance |-> debited[tx.to].balance + tx.value,
                                         code |-> debited[tx.to].code]]
    ELSE w

\* The world after the engine applied tx with the given coinbase: the value
\* moves when the sender can pay, and the coinbase is credited (it exists
\* afterwards).
ApplyWorld(w, tx, coinbase) == [Moved(w, tx) EXCEPT ![coinbase].present = TRUE]

\* A db holding what both dbs hold.
DbMerge(d1, d2) ==
    [h \in DOMAIN d1 \cup DOMAIN d2 |-> IF h \in DOMAIN d1 THEN d1[h] ELSE d2[h]]

\* set(coinbase): the elements of the byte string, one key per byte.
SetOfBytes(s) == {<<s[i]>> : i \in 1..Len(s)}

\* The keys line 118 iterates over: tx.read_write_union_list | set(coinbase).
UpdatedKeys(union, coinbase) == union \cup SetOfBytes(coinbase)

\* The sequences that list the elements of a set once each.
Orders(S) ==
    {f \in [1..Cardinality(S) -> S] : \A i, j \in 1..Cardinality(S) : i # j => f[i] # f[j]}

\* mk_confirmed_tx_bundle(state, tx, prev_blk_number, prev_blk_state_root,
\* latest_blk_state_root, coinbase): [err, bundle].  union is the set
\* tx.read_write_union_list as it is at the call, order the order in which
\* the set of line 118 is iterated.
mk_confirmed_tx_bundle(db, tx, union, prev_number, prev_root, latest_root, coinbase, order) ==
    LET reads == ProofList(db, prev_root, Append(tx.read_list, coinbase))
        writes == ProofList(db, prev_root, Append(tx.write_list, coinbase))
        updated == ProofList(db, latest_root, order)
    IN  [err |-> IF reads.err # "" THEN reads.err
                 ELSE IF writes.err # "" THEN writes.err
                 ELSE updated.err,
         bundle |-> [tx_rlpdata |-> TxRlp(tx),
                     block_number |-> prev_number,
                     state_root |-> prev_root,
                     read_list_proof |-> reads.list,
                     write_list_proof |-> writes.list,
                     updated_acct_proof |-> updated.list]]

InitBuild ==
    /\ world \in Worlds
    /\ onabsent \in AbsentKeyBehaviours
    /\ IdleBuild
    /\ IdleAttach
    /\ IdleVerify
    /\ IdleBranch
    /\ IdleGroup

\* The full node, its db holding the state before and after the
\* transaction, builds the confirmed bundle of tx.
MkConfirmedTxBundle(tx, coinbase) ==
    /\ cpc = "idle"
    /\ world[tx.to].balance + tx.value <= MaxBalance
    /\ LET post == ApplyWorld(world, tx, coinbase)
           db == DbMerge(StateDb(world), StateDb(post))
       IN  /\ cpost' = post
           /\ \E order \in Orders(UpdatedKeys(ReadWriteUnion(tx), coinbase)) :
                cres' = mk_confirmed_tx_bundle(db, tx, ReadWriteUnion(tx), 1,
                            StateRoot(world), StateRoot(post), coinbase, order)
    /\ ctx' = tx
    /\ ccoinbase' = coinbase
    /\ cpc' = "done"
    /\ UNCHANGED <<wacct, wres, fvars, avars, gvars, bvars, vvars>>

\* The full node makes the proof wrapper of an account at its state root.
MkAccountProofWrapper(a) ==
    /\ cpc = "idle"
    /\ wacct' = a
    /\ wres' = mk_account_proof_wrapper(StateDb(world), StateRoot(world), a)
    /\ cpc' = "wrapped"
    /\ UNCHANGED <<cpost, ctx, ccoinbase, cres, fvars, avars, gvars, bvars, vvars>>

NextBuild ==
    \/ \E tx \in BlockTxs, coinbase \in Accounts : MkConfirmedTxBundle(tx, coinbase)
    \/ \E a \in Accounts : MkAccountProofWrapper(a)

SpecBuild == InitBuild /\ [][NextBuild]_vars

(***************************************************************************)
(* verify_tx_bundle, call after call, on pending and confirmed bundles     *)
(***************************************************************************)

\* The loops of lines 136-152 from wrapper k on: [err, db].
RECURSIVE VerifyLoop(_, _, _)
VerifyLoop(db, b, k) ==
    IF k > Len(Wrappers(b)) THEN [err |-> "", db |-> db]
    ELSE IF ~AssertHolds(CheckWrapper(b, k)) THEN [err |-> "AssertionError", db |-> db]
    ELSE LET w == Wrappers(b)[k].wrapper
             r == store_merkle_branch_nodes(PutCode(db, w), w.merkle_proof)
         IN  IF r.err # "" THEN [err |-> r.err, db |-> r.db]
             ELSE VerifyLoop(r.db, b, k + 1)

\* verify_tx_bundle(env, state_root, coinbase, tx_bundle) as one function:
\* how the call ends and the ephemeral store as it leaves it.
verify_tx_bundle(state_root, b) ==
    LET seeded == DbPut(EphemDB(<<>>), sha3(EmptyBytes), EmptyBytes)
        l == VerifyLoop(seeded, b, 1)
        r == apply_transaction(l.db, state_root, TxDecode(b.tx_rlpdata))
    IN  IF ~RootAssert(state_root, b) THEN [res |-> Raised("AssertionError"), db |-> seeded]
        ELSE IF l.err # "" THEN [res |-> Raised(l.err), db |-> l.db]
        ELSE [res |-> IF r.err # "" THEN Raised(r.err) ELSE Returned(r.success),
              db |-> l.db]

\* The bundle without its updated_acct_proof entry.
WithoutUpdated(b) ==
    [tx_rlpdata |-> b.tx_rlpdata, block_number |-> b.block_number,
     state_root |-> b.state_root, read_list_proof |-> b.read_list_proof,
     write_list_proof |-> b.write_list_proof]

\* One order in which the set of line 118 is iterated.
SomeOrder(S) == CHOOSE f \in Orders(S) : TRUE

\* The full node builds the confirmed bundle of tx, the block's state being
\* the one after tx.
BuildConfirmedBundle(tx, coinbase) ==
    /\ vpc = "idle"
    /\ world[tx.to].balance + tx.value <= MaxBalance
    /\ LET post == ApplyWorld(world, tx, coinbase)
           r == mk_confirmed_tx_bundle(DbMerge(StateDb(world), StateDb(post)), tx,
                    ReadWriteUnion(tx), 1, StateRoot(world), StateRoot(post), coinbase,
                    SomeOrder(UpdatedKeys(ReadWriteUnion(tx), coinbase)))
       IN  /\ vbundle' = IF r.err = "" THEN r.bundle ELSE NoBundle
           /\ vpc' = IF r.err = "" THEN "built" ELSE r.err
    /\ UNCHANGED <<vroot, vk, edb, vlog, vres, vmut, vcalls, vold, fvars, avars, gvars,
                   bvars, cvars>>

\* Other lists of updated-account proofs: none, one wrapper less, the raw
\* bytes of one wrapper replaced.
UpdatedChanges(l) ==
    ({<<>>} \cup (IF l = <<>> THEN {} ELSE {Tail(l)})
        \cup {[l EXCEPT ![k].wrapper.acct_rlpdata = v] :
                 k \in 1..Len(l),
                 v \in {EmptyBytes, AcctRlp([present |-> TRUE, balance |-> 0, code |-> 0])}})
    \ {l}

\* The updated_acct_proof of the bundle is changed, or taken out, on its way
\* to the verifier.
TamperUpdated ==
    /\ vpc = "built"
    /\ vmut = "none"
    /\ "updated_acct_proof" \in DOMAIN vbundle
    /\ \/ vbundle' = WithoutUpdated(vbundle)
       \/ \E l \in UpdatedChanges(vbundle.updated_acct_proof) :
              vbundle' = [vbundle EXCEPT !.updated_acct_proof = l]
    /\ vmut' = "updated"
    /\ UNCHANGED <<vroot, vpc, vk, edb, vlog, vres, vcalls, vold, fvars, avars, gvars,
                   bvars, cvars>>

\* The call has returned; the full node's state moves on by the transaction
\* and another bundle will be verified.
NextCall ==
    /\ vpc = "returned"
    /\ vcalls < MaxCalls
    /\ LET tx == TxDecode(vbundle.tx_rlpdata)
       IN  /\ world[tx.to].balance + tx.value <= MaxBalance
           /\ world' = Moved(world, tx)
    /\ vold' = vold \cup DOMAIN edb
    /\ vbundle' = NoBundle
    /\ vroot' = BLANK_ROOT
    /\ vpc' = "idle"
    /\ vk' = 0
    /\ vlog' = <<>>
    /\ vres' = NoResult
    /\ vmut' = "none"
    /\ UNCHANGED <<edb, vcalls, onabsent, avars, gvars, bvars, cvars>>

\* Pending bundles verified one call after the other.
NextCalls ==
    \/ \E tx \in Txs : BuildPendingBundle(tx)
    \/ VerifyBegin
    \/ CheckProof
    \/ StoreWrapper
    \/ ReplayTx
    \/ NextCall

SpecCalls == InitVerify /\ [][NextCalls]_vars

\* A confirmed bundle, its updated_acct_proof as built or changed, verified.
NextUpdated ==
    \/ \E tx \in Txs, coinbase \in Accounts : BuildConfirmedBundle(tx, coinbase)
    \/ TamperUpdated
    \/ VerifyBegin
    \/ CheckProof
    \/ StoreWrapper
    \/ ReplayTx

SpecUpdated == InitVerify /\ [][NextUpdated]_vars

(***************************************************************************)
(* group_txs                                                               *)
(***************************************************************************)

\* current_set is a reference: to the fresh set() made at entry (ref = 0, its
\* value in own) or to the set object of transaction ref (line 169 binds the
\* name to tx.read_write_union_list itself, no copy is made).
CurrentSet(s) == IF s.ref = 0 THEN s.own ELSE s.heap[s.ref]

\* A grouper that compares only with the previous transaction's set.
GroupStepNoUnion(s, tx) ==
    IF (s.heap[tx] \cap CurrentSet(s)) # {}
    THEN [s EXCEPT !.groups = Append(@, s.current_group),
                   !.ref = tx,
                   !.current_group = <<tx>>]
    ELSE [s EXCEPT !.current_group = Append(@, tx), !.ref = tx]

\* A grouper that forgets to close the finished group.
GroupStepNoClose(s, tx) ==
    IF (s.heap[tx] \cap CurrentSet(s)) # {}
    THEN [s EXCEPT !.ref = tx, !.current_group = <<tx>>]
    ELSE IF s.ref = 0
         THEN [s EXCEPT !.current_group = Append(@, tx),
                        !.own = @ \cup s.heap[tx]]
         ELSE [s EXCEPT !.current_group = Append(@, tx),
                        !.heap[s.ref] = @ \cup s.heap[tx]]

\* A grouper that keeps the running set of the closed group when it opens a
\* new one.
GroupStepNoReset(s, tx) ==
    IF (s.heap[tx] \cap CurrentSet(s)) # {}
    THEN IF s.ref = 0
         THEN [s EXCEPT !.groups = Append(@, s.current_group),
                        !.current_group = <<tx>>,
                        !.own = @ \cup s.heap[tx]]
         ELSE [s EXCEPT !.groups = Append(@, s.current_group),
                        !.current_group = <<tx>>,
                        !.heap[s.ref] = @ \cup s.heap[tx]]
    ELSE IF s.ref = 0
         THEN [s EXCEPT !.current_group = Append(@, tx),
                        !.own = @ \cup s.heap[tx]]
         ELSE [s EXCEPT !.current_group = Append(@, tx),
                        !.heap[s.ref] = @ \cup s.heap[tx]]

\* One iteration of the loop of group_txs (lines 163-173).  `|=` on a set
\* updates the set object in place.
GroupStep(s, tx) ==
    IF (s.heap[tx] \cap CurrentSet(s)) # {}
    THEN [s EXCEPT !.groups = Append(@, s.current_group),
                   !.ref = tx,
                   !.current_group = <<tx>>]
    ELSE IF s.ref = 0
         THEN [s EXCEPT !.current_group = Append(@, tx),
                        !.own = @ \cup s.heap[tx]]
         ELSE [s EXCEPT !.current_group = Append(@, tx),
                        !.heap[s.ref] = @ \cup s.heap[tx]]

RECURSIVE GroupLoop(_, _, _)
GroupLoop(s, list, i) ==
    IF i > Len(list) THEN s ELSE GroupLoop(GroupStep(s, list[i]), list, i + 1)

\* group_txs(txs): the returned groups and the heap as the call leaves it.
group_txs(list, heap) ==
    LET s == GroupLoop([groups |-> <<>>, current_group |-> <<>>,
                        ref |-> 0, own |-> {}, heap |-> heap], list, 1)
    IN  [groups |-> Append(s.groups, s.current_group), heap |-> s.heap]

InitGroup ==
    /\ \E n \in 0..MaxTxs :
         /\ txs = [i \in 1..n |-> i]
         /\ rwul \in [1..n -> SUBSET Accounts]
    /\ rwul0 = rwul
    /\ groups = <<>>
    /\ gpc = "ready"
    /\ world = [a \in Accounts |-> Absent]
    /\ onabsent = "raise"
    /\ IdleBranch
    /\ IdleVerify
    /\ IdleBuild
    /\ IdleAttach

GroupTxs ==
    /\ gpc = "ready"
    /\ LET r == group_txs(txs, rwul)
       IN  /\ groups' = r.groups
           /\ rwul' = r.heap
    /\ gpc' = "done"
    /\ UNCHANGED <<txs, rwul0, fvars, avars, bvars, vvars, cvars>>

NextGroup == GroupTxs

SpecGroup == InitGroup /\ [][NextGroup]_vars

(***************************************************************************)
(* attach_tx_bundles_to_txs_in_block                                       *)
(***************************************************************************)

\* prev_block_header.number.
PrevNumber == 1

\* The transactions a block is made of: an account sending nothing to
\* itself, and the first account paying the second.
AttachTxs ==
    {Transfer(Address(i), Address(i), 0) : i \in 1..2}
        \cup {Transfer(Address(1), Address(2), 1)}

Blocks == UNION {[1..n -> AttachTxs] : n \in 0..MaxBlock}

\* The accounts after the first k transactions of the block.
RECURSIVE StateAfter(_, _, _, _)
StateAfter(w, block, coinbase, k) ==
    IF k = 0 THEN w
    ELSE ApplyWorld(StateAfter(w, block, coinbase, k - 1), block[k], coinbase)

\* target_block.header.state_root.
HeaderStateRoot == StateRoot(StateAfter(world, ablock, acoinbase, Len(ablock)))

\* state.trie.db: the nodes of the state at entry, of the last commit and
\* of the state the block's header names.
AttachDb ==
    DbMerge(DbMerge(StateDb(world), StateDb(atrie)),
            StateDb(StateAfter(world, ablock, acoinbase, Len(ablock))))

\* A builder anchored at the state as applied so far, committed or not.
RootHashOfCache(trie, cache) == StateRoot(cache)

\* state.trie.root_hash (line 188): the root of the trie as last committed.
RootHash(trie, cache) == StateRoot(trie)

\* An attacher that goes on after a failed transaction.
AssertSkipped(success) == TRUE

\* assert success (line 190).
AssertSuccess(success) == success

\* An attacher that keeps the block number for every group.
BlockNumberKept(i, number) == number

\* Lines 194-195 after group i (the first group is i = 1 here, 0 there).
BlockNumberAfter(i, number) == IF i = 1 THEN -1 ELSE number

\* What the call did, step by step.
LogEntry(op, idx, group, root, number, ok) ==
    [op |-> op, idx |-> idx, group |-> group, root |-> root, number |-> number, ok |-> ok]

InitAttach ==
    /\ world \in StartWorlds
    /\ onabsent \in AbsentKeyBehaviours
    /\ ablock \in Blocks
    /\ acoinbase \in Accounts
    /\ \A k \in 0..Len(ablock), a \in Accounts :
          StateAfter(world, ablock, acoinbase, k)[a].balance <= MaxBalance
    /\ aheap = [i \in 1..Len(ablock) |-> ReadWriteUnion(ablock[i])]
    /\ acache = world
    /\ atrie = world
    /\ agroups = <<>>
    /\ ai = 0
    /\ aj = 0
    /\ anumber = 0
    /\ alist = <<>>
    /\ aattached = [set |-> FALSE, list |-> <<>>]
    /\ alog = <<>>
    /\ aerr = ""
    /\ apc = "ready"
    /\ IdleBuild
    /\ IdleVerify
    /\ IdleBranch
    /\ IdleGroup

\* Lines 180-183: the block number, the empty list, the groups.
AttachBegin ==
    /\ apc = "ready"
    /\ anumber' = PrevNumber
    /\ alist' = <<>>
    /\ LET r == group_txs([i \in 1..Len(ablock) |-> i], aheap)
       IN  /\ agroups' = r.groups
           /\ aheap' = r.heap
    /\ ai' = 1
    /\ aj' = 1
    /\ alog' = <<LogEntry("enter", 0, 0, StateRoot(atrie), PrevNumber, TRUE)>>
    /\ apc' = "loop"
    /\ UNCHANGED <<ablock, acoinbase, acache, atrie, aattached, aerr, fvars, gvars, bvars,
                   vvars, cvars>>

\* Lines 186-188: the bundle of the next transaction of the group.
AttachBuild ==
    /\ apc = "loop"
    /\ ai <= Len(agroups)
    /\ aj <= Len(agroups[ai])
    /\ LET idx == agroups[ai][aj]
           r == mk_confirmed_tx_bundle(AttachDb, ablock[idx], aheap[idx], anumber,
                    RootHash(atrie, acache), HeaderStateRoot, acoinbase,
                    SomeOrder(UpdatedKeys(aheap[idx], acoinbase)))
       IN  IF r.err # ""
           THEN /\ apc' = "raised"
                /\ aerr' = r.err
                /\ UNCHANGED <<alist, alog>>
           ELSE /\ apc' = "apply"
                /\ alist' = Append(alist, r.bundle)
                /\ alog' = Append(alog, LogEntry("build", idx, ai, r.bundle.state_root,
                                                 r.bundle.block_number, TRUE))
                /\ UNCHANGED aerr
    /\ UNCHANGED <<ablock, aheap, acoinbase, acache, atrie, agroups, ai, aj, anumber,
                   aattached, fvars, gvars, bvars, vvars, cvars>>

\* Lines 189-190: the transaction is applied to the state; the trie is not
\* written before the commit.
AttachApply ==
    /\ apc = "apply"
    /\ LET idx == agroups[ai][aj]
           success == Pays(acache, ablock[idx])
       IN  /\ acache' = ApplyWorld(acache, ablock[idx], acoinbase)
           /\ alog' = Append(alog, LogEntry("apply", idx, ai,
                                            StateRoot(ApplyWorld(acache, ablock[idx], acoinbase)),
                                            anumber, success))
           /\ IF AssertSuccess(success)
              THEN /\ aj' = aj + 1
                   /\ apc' = "loop"
                   /\ UNCHANGED aerr
              ELSE /\ apc' = "raised"
                   /\ aerr' = "AssertionError"
                   /\ UNCHANGED aj
    /\ UNCHANGED <<ablock, aheap, acoinbase, atrie, agroups, ai, anumber, alist,
                   aattached, fvars, gvars, bvars, vvars, cvars>>

\* Lines 192-195: the group is done; commit, and the block number of the
\* groups to come.
AttachCommit ==
    /\ apc = "loop"
    /\ ai <= Len(agroups)
    /\ aj > Len(agroups[ai])
    /\ atrie' = acache
    /\ anumber' = BlockNumberAfter(ai, anumber)
    /\ alog' = Append(alog, LogEntry("commit", 0, ai, StateRoot(acache),
                                     BlockNumberAfter(ai, anumber), TRUE))
    /\ ai' = ai + 1
    /\ aj' = 1
    /\ UNCHANGED <<ablock, aheap, acoinbase, acache, agroups, alist, aattached, aerr, apc,
                   fvars, gvars, bvars, vvars, cvars>>

\* Line 196: target_block.tx_bundle_list = tx_bundle_list.
AttachAssign ==
    /\ apc = "loop"
    /\ ai > Len(agroups)
    /\ aattached' = [set |-> TRUE, list |-> alist]
    /\ apc' = "done"
    /\ UNCHANGED <<ablock, aheap, acoinbase, acache, atrie, agroups, ai, aj, anumber,
                   alist, alog, aerr, fvars, gvars, bvars, vvars, cvars>>

NextAttach ==
    \/ AttachBegin
    \/ AttachBuild
    \/ AttachApply
    \/ AttachCommit
    \/ AttachAssign

SpecAttach == InitAttach /\ [][NextAttach]_vars


RECURSIVE Concat(_)
Concat(ss) == IF ss = <<>> THEN <<>> ELSE Head(ss) \o Concat(Tail(ss))

Combined(g, heap) == UNION {heap[g[i]] : i \in 1..Len(g)}

\* C1: concatenating the groups returned by group_txs, in order, gives the
\* input list exactly (every transaction once, order kept), also for the
\* empty list.
C1_ConcatIsInput == gpc = "done" => Concat(groups) = txs

C1_Witness ==
    /\ gpc = "done"
    /\ Len(groups) >= 2
    /\ \E k \in 1..Len(groups) : Len(groups[k]) >= 2

\* C2: after group_txs returned, any two distinct transactions of one
\* returned group have disjoint read_write_union_list sets.
C2_SameGroupDisjointAfter ==
    gpc = "done" =>
        \A k \in 1..Len(groups) : \A i, j \in 1..Len(groups[k]) :
            i # j => rwul[groups[k][i]] \cap rwul[groups[k][j]] = {}

\* C3 as stated: the combined touch set of each returned group is disjoint
\* from the combined touch set of every other returned group.
C3_GroupsPairwiseDisjoint ==
    gpc = "done" =>
        \A k, m \in 1..Len(groups) :
            k # m => Combined(groups[k], rwul0) \cap Combined(groups[m], rwul0) = {}

\* C3 amended: inside each returned group the touch sets the transactions
\* had at the call are pairwise disjoint, while the combined touch sets of
\* two adjacent groups always share an account.
C3_DisjointWithinGroups ==
    gpc = "done" =>
        /\ \A k \in 1..Len(groups) : \A i, j \in 1..Len(groups[k]) :
               i # j => rwul0[groups[k][i]] \cap rwul0[groups[k][j]] = {}
        /\ \A k \in 1..(Len(groups) - 1) :
               Combined(groups[k], rwul0) \cap Combined(groups[k + 1], rwul0) # {}

C3_Witness ==
    /\ gpc = "done"
    /\ Len(groups) = 2
    /\ Len(groups[2]) = 2
    /\ rwul0[groups[2][1]] # {}
    /\ rwul0[groups[2][2]] # {}

\* C4 as stated: storing the branch that get_merkle_proof returned for a
\* present key gives back, as the result of the call, the hash of the
\* outermost reconstructed node, which is the root.
C4_ReturnsRoot ==
    (bpc \in {"stored", "raised"} /\ nmut = 0) =>
        (~bres.ret.none /\ bres.ret.val = StateRoot(world))

\* C4 amended: the call succeeds and returns nothing (None); the outermost
\* node it reconstructed hashes to the root and is stored under the root.
C4_StoresRootNode ==
    (bpc \in {"stored", "raised"} /\ nmut = 0) =>
        /\ bres.err = ""
        /\ bres.ret = None
        /\ sha3(bres.top) = StateRoot(world)
        /\ StateRoot(world) \in DOMAIN bdb
        /\ bdb[StateRoot(world)] = bres.top

C4_Witness ==
    /\ bpc = "stored"
    /\ nmut = 0
    /\ world[bkey].present
    /\ \E i, j \in 1..(Len(branch) - 1) : branch[i].t = 1 /\ branch[j].t = 3
    /\ sha3(bres.top) = StateRoot(world)

\* A step whose payload the node encoders accept.
WellFormedStep(d) ==
    /\ d.t = 1 => decode_bin_path(d.p) # <<>>
    /\ d.t \in {2, 3} => d.l # <<>>

\* C5 as stated: a changed discriminant at any index of the branch, the
\* last one included, makes store_merkle_branch_nodes fail with
\* "Corrupted branch".
C5_CorruptAnywhereFails ==
    (bpc \in {"stored", "raised"} /\ \E i \in 1..Len(branch) : branch[i].t \in BadMarkers)
        => bres.err = "CorruptedBranch"

\* C5 amended: an unknown marker at any index but the last (the later steps
\* being well formed) fails with "Corrupted branch"; the last element is the
\* raw value, its first byte is never looked at, so a branch whose other
\* steps are in order is stored without an error whatever the last element
\* starts with, and so is every branch of length one.
C5_CorruptBeforeLastFails ==
    bpc \in {"stored", "raised"} =>
        /\ (\E i \in 1..(Len(branch) - 1) :
               /\ branch[i].t \notin Markers
               /\ \A j \in (i + 1)..(Len(branch) - 1) : WellFormedStep(branch[j]))
           => bres.err = "CorruptedBranch"
        /\ (\A i \in 1..(Len(branch) - 1) :
               branch[i].t \in Markers /\ WellFormedStep(branch[i]))
           => bres.err = ""

C5_Witness ==
    /\ bpc = "raised"
    /\ bres.err = "CorruptedBranch"
    /\ Len(branch) >= 3
    /\ branch[1].t \in BadMarkers
    /\ \A i \in 2..(Len(branch) - 1) : branch[i].t \in Markers


\* The transaction of the bundle succeeds on the genuine state.
TxSucceeds ==
    LET tx == TxDecode(vbundle.tx_rlpdata)
    IN  world[tx.sender].present /\ world[tx.sender].balance >= tx.value

\* Wrapper k of the bundle proves its account bytes under the claimed root.
ProofHolds(k) ==
    LET e == Wrappers(vbundle)[k]
        r == verify_merkle_proof(e.wrapper.merkle_proof, vbundle.state_root, e.acct,
                                 e.wrapper.acct_rlpdata)
    IN  r.err = "" /\ r.ok

Replayed == \E i \in 1..Len(vlog) : vlog[i][1] = "replay"

\* C6 as stated: a bundle of a succeeding transaction with one proof's raw
\* bytes, one branch step or the claimed root changed makes verify_tx_bundle
\* return False.
C6_TamperedReturnsFalse ==
    (vpc \in {"returned", "raised"} /\ vmut # "none" /\ TxSucceeds)
        => vres = Returned(FALSE)

\* C6 amended: such a bundle never verifies, but the failure is an exception
\* (the failed assert), not a returned False: the call returns nothing and
\* the transaction is not replayed.
C6_TamperedRaises ==
    (vpc \in {"returned", "raised"} /\ vmut # "none" /\ TxSucceeds)
        => (vres.kind = "raised" /\ ~Replayed)

C6_Witness ==
    /\ vpc = "raised"
    /\ vmut = "step"
    /\ TxSucceeds
    /\ vk = Len(Wrappers(vbundle))
    /\ vk >= 3

\* C7: with the claimed root equal to the expected one and every wrapper
\* verifying, verify_tx_bundle returns the success flag of the replay on the
\* ephemeral state, which is true when the engine accepts the transaction on
\* the genuine state and false when it rejects it.
C7_ReturnsReplayFlag ==
    (/\ vpc \in {"returned", "raised"}
     /\ vbundle.state_root = vroot
     /\ \A k \in 1..Len(Wrappers(vbundle)) : ProofHolds(k))
        => /\ vres = Returned(apply_transaction(edb, vroot, TxDecode(vbundle.tx_rlpdata)).success)
           /\ vres.value = TxSucceeds

C7_Witness ==
    /\ vpc = "returned"
    /\ vres = Returned(FALSE)
    /\ vbundle.state_root = vroot
    /\ \A k \in 1..Len(Wrappers(vbundle)) : ProofHolds(k)

\* C8: when the root the bundle claims differs from the expected root, the
\* call fails at once: no proof is verified, nothing but the seeded empty
\* value is in the ephemeral store, the transaction is not replayed.
C8_RootMismatchFailsFirst ==
    (vlog # <<>> /\ vbundle.state_root # vroot)
        => /\ vpc = "raised"
           /\ vres = Raised("AssertionError")
           /\ vlog = <<<<"seed", 0>>>>
           /\ edb = SeededDb

C8_Witness ==
    /\ vlog # <<>>
    /\ vbundle.state_root # vroot
    /\ vmut = "root"
    /\ vpc = "raised"

\* C9: the replay comes after every wrapper was verified and then stored; a
\* wrapper whose proof fails means no replay; and the code and nodes of a
\* wrapper are written only after the proof of that same wrapper has held.
C9_VerifyStoreThenReplay ==
    /\ \A i \in 1..Len(vlog) : vlog[i][1] = "replay" =>
           \A k \in 1..Len(Wrappers(vbundle)) :
               /\ ProofHolds(k)
               /\ \E c, s \in 1..(i - 1) :
                      c < s /\ vlog[c] = <<"check", k>> /\ vlog[s] = <<"store", k>>
    /\ (vlog # <<>> /\ \E k \in 1..Len(Wrappers(vbundle)) : ~ProofHolds(k)) => ~Replayed
    /\ \A i \in 1..Len(vlog) : vlog[i][1] = "store" =>
           /\ ProofHolds(vlog[i][2])
           /\ \E c \in 1..(i - 1) : vlog[c] = <<"check", vlog[i][2]>>
    /\ (vlog # <<>> /\ edb # SeededDb) => \E i \in 1..Len(vlog) : vlog[i][1] = "store"

C9_Witness ==
    /\ vpc = "raised"
    /\ vmut = "raw"
    /\ ~ProofHolds(3)
    /\ vlog = <<<<"seed", 0>>, <<"check", 1>>, <<"store", 1>>, <<"check", 2>>,
                <<"store", 2>>, <<"check", 3>>>>


\* C10: for every transaction and coinbase whose accounts exist, the bundle
\* mk_confirmed_tx_bundle returns has in updated_acct_proof one wrapper,
\* built at the post-execution root, for each account of
\* readList + writeList + {coinbase} and for nothing else.
C10_UpdatedProofsCoverCoinbase ==
    (/\ cpc = "done"
     /\ ReadWriteUnion(ctx) \cup {ccoinbase} \subseteq Present(world))
        => /\ cres.err = ""
           /\ {e.acct : e \in SeqRange(cres.bundle.updated_acct_proof)}
                  = ReadWriteUnion(ctx) \cup {ccoinbase}
           /\ \A e \in SeqRange(cres.bundle.updated_acct_proof) :
                  e.wrapper = mk_account_proof_wrapper(StateDb(cpost), StateRoot(cpost),
                                                       e.acct).wrapper

\* C14 as stated: for an account that is absent under the root of a trie
\* that holds other accounts, with
\* trie._get_branch raising NotFound for an absent key,
\* mk_account_proof_wrapper succeeds and returns a wrapper with empty account
\* bytes, empty code and a branch.
C14_AbsentAccountWrapped ==
    (/\ cpc = "wrapped"
     /\ Present(world) # {}
     /\ ~world[wacct].present
     /\ onabsent = "raise")
        => /\ wres.err = ""
           /\ wres.wrapper.acct_rlpdata = EmptyBytes
           /\ wres.wrapper.code = EmptyBytes
           /\ wres.wrapper.merkle_proof # <<>>

\* C16: the groups are the ones the left-to-right rule gives: a transaction
\* that is not the first of its group is disjoint from the union of the
\* touch sets of the transactions before it in the group (it did not open a
\* new group), and the first transaction of every group after the first
\* intersects the union of the touch sets of the group before it (it did),
\* so it conflicts with a transaction of that group.  Touch sets are the
\* ones at the call.
C16_NewGroupIffConflict ==
    gpc = "done" =>
        /\ Concat(groups) = txs
        /\ \A k \in 1..Len(groups) : \A j \in 2..Len(groups[k]) :
               rwul0[groups[k][j]] \cap Combined(SubSeq(groups[k], 1, j - 1), rwul0) = {}
        /\ \A k \in 2..Len(groups) :
               /\ groups[k] # <<>>
               /\ rwul0[groups[k][1]] \cap Combined(groups[k - 1], rwul0) # {}
               /\ \E i \in 1..Len(groups[k - 1]) :
                      rwul0[groups[k][1]] \cap rwul0[groups[k - 1][i]] # {}

\* Three transactions grouped as [[T1], [T2, T3]].
C16_Witness ==
    /\ gpc = "done"
    /\ Len(txs) = 3
    /\ groups = <<<<1>>, <<2, 3>>>>
    /\ \A i \in 1..3 : rwul0[i] # {}

\* C19 as stated: every transaction's read_write_union_list holds after the
\* call the accounts it held before it.
C19_InputUnchanged ==
    gpc = "done" => \A i \in 1..Len(txs) : rwul[i] = rwul0[i]

\* The step at which the loop of store_merkle_branch_nodes stops: the one
\* nearest the leaf that it cannot process.
FailingStep == CHOOSE i \in 1..(Len(branch) - 1) :
                   /\ StepErr(branch[i]) # ""
                   /\ \A j \in (i + 1)..(Len(branch) - 1) : StepErr(branch[j]) = ""

\* C18 as stated: after a store_merkle_branch_nodes call that failed with
\* "Corrupted branch" the store holds exactly the entries it held before the
\* call.
C18_FailureLeavesStoreAsBefore ==
    (bpc = "raised" /\ bres.err = "CorruptedBranch") => bdb = SeededDb

\* C18 amended: the failed call persists no node for the step with the
\* unknown marker nor for any step nearer the root, but what it persisted
\* before it reached that step stays: after the failure the store holds what
\* it held before the call, the leaf value and the nodes of the steps
\* between the failing step and the leaf, each under its own hash.
C18_FailureKeepsEarlierNodes ==
    (bpc = "raised" /\ bres.err = "CorruptedBranch") =>
        LET kept == SeqRange(Reconstruct(SubSeq(branch, FailingStep + 1, Len(branch)), 1))
        IN  /\ DOMAIN bdb = DOMAIN SeededDb \cup {sha3(n) : n \in kept}
            /\ \A h \in DOMAIN bdb : sha3(bdb[h]) = h
            /\ sha3(branch[Len(branch)]) \in DOMAIN bdb

C18_Witness ==
    /\ bpc = "raised"
    /\ bres.err = "CorruptedBranch"
    /\ FailingStep = 1
    /\ Len(branch) >= 3
    /\ Cardinality(DOMAIN bdb) = Len(branch)

\* The keys verify_tx_bundle writes for bundle b: the seeded empty value, the
\* nodes its read/write wrappers reconstruct to and their code blobs.
OwnEntries(b) ==
    {sha3(EmptyBytes)}
        \cup UNION {{sha3(n) : n \in SeqRange(Reconstruct(e.wrapper.merkle_proof, 1))}
                    : e \in SeqRange(Wrappers(b))}
        \cup {sha3(e.wrapper.code) : e \in {x \in SeqRange(Wrappers(b)) :
                                                x.wrapper.code # EmptyBytes}}

\* C15: when the transaction is about to be replayed, the ephemeral store
\* holds the seeded empty value, the nodes reconstructed from the read and
\* write wrappers of this bundle (all verified) and their code blobs, each
\* under the hash of its content, and nothing else; what an earlier call
\* wrote is in it only if this call wrote it itself.
C15_StoreHoldsOwnProofsOnly ==
    vpc = "replay" =>
        /\ DOMAIN edb = OwnEntries(vbundle)
        /\ \A h \in DOMAIN edb : sha3(edb[h]) = h
        /\ \A k \in 1..Len(Wrappers(vbundle)) : ProofHolds(k)
        /\ (vold \ OwnEntries(vbundle)) \cap DOMAIN edb = {}

C15_Witness ==
    /\ vpc = "replay"
    /\ vcalls = 2
    /\ vold \ DOMAIN edb # {}
    /\ \E e \in SeqRange(Wrappers(vbundle)) : e.wrapper.code # EmptyBytes

\* C20: however the updated_acct_proof of the bundle reads, and whether it
\* is there at all, verify_tx_bundle ends as it does for the bundle without
\* it and leaves the same ephemeral store.
C20_UpdatedProofIgnored ==
    vpc \in {"returned", "raised"} =>
        LET o == verify_tx_bundle(vroot, WithoutUpdated(vbundle))
        IN  vres = o.res /\ edb = o.db

C20_Witness ==
    /\ vpc = "returned"
    /\ vres = Returned(TRUE)
    /\ vmut = "updated"
    /\ "updated_acct_proof" \in DOMAIN vbundle
    /\ vbundle.updated_acct_proof # <<>>

\* The positions of the log where a bundle was built.
Builds == {p \in 1..Len(alog) : alog[p].op = "build"}

\* The log entry that gives the start root of the group being worked on at
\* position p: the entry of the call or the last commit before p.
GroupStart(p) ==
    LET marks == {q \in 1..(p - 1) : alog[q].op \in {"enter", "commit"}}
    IN  alog[CHOOSE q \in marks : \A r \in marks : r <= q]

\* The bundle built at log position p: bundles are appended to the list in
\* the order they are built.
BundleAt(p) == alist[Cardinality({q \in Builds : q <= p})]

\* C11: every bundle built for a transaction of group g carries as
\* state_root the group's start root: the root at entry for the first
\* group, the root of the commit after group g-1 for a later group g,
\* whatever was applied in the group before the bundle was built.
C11_BundlesAnchoredAtGroupStart ==
    \A p \in Builds :
        /\ BundleAt(p).state_root = GroupStart(p).root
        /\ alog[p].root = GroupStart(p).root
        /\ IF alog[p].group = 1 THEN GroupStart(p).op = "enter"
           ELSE GroupStart(p).op = "commit" /\ GroupStart(p).group = alog[p].group - 1

C11_Witness ==
    /\ apc = "done"
    /\ \E p \in Builds : alog[p].group = 2 /\ GroupStart(p).root # alog[1].root
    /\ \E p \in Builds, q \in 1..Len(alog) :
          /\ q < p
          /\ alog[q].op = "apply"
          /\ alog[q].group = alog[p].group
          /\ alog[q].root # alog[p].root

\* Every transaction of the block can be paid for when its turn comes.
AllApply ==
    \A k \in 1..Len(ablock) :
        Pays(StateAfter(world, ablock, acoinbase, k - 1), ablock[k])

\* C12: when every transaction of the block applies, the call ends with
\* target_block.tx_bundle_list set to one bundle per transaction, in the
\* block's order, the i-th bundle carrying the i-th transaction.
C12_OneBundlePerTx ==
    (apc \in {"done", "raised"} /\ AllApply) =>
        /\ aattached.set
        /\ Len(aattached.list) = Len(ablock)
        /\ \A i \in 1..Len(ablock) : aattached.list[i].tx_rlpdata = TxRlp(ablock[i])

\* C13: once a transaction has failed to apply nothing more is built or
\* applied, the call has raised, and no list is assigned to the block.
C13_AbortOnFailedTx ==
    \A p \in 1..Len(alog) :
        (alog[p].op = "apply" /\ ~alog[p].ok) =>
            /\ p = Len(alog)
            /\ apc = "raised"
            /\ aattached = [set |-> FALSE, list |-> <<>>]

C13_Witness ==
    /\ apc = "raised"
    /\ aerr = "AssertionError"
    /\ alog[Len(alog)].op = "apply"
    /\ ~alog[Len(alog)].ok
    /\ alog[Len(alog)].idx > 1
    /\ alog[Len(alog)].idx < Len(ablock)
    /\ Len(alist) > 1

\* C17: a bundle built for a transaction of the first group has
\* block_number equal to the previous block header's number, a bundle built
\* for a transaction of a later group has block_number -1.
C17_BlockNumberOfGroup ==
    \A p \in Builds :
        /\ BundleAt(p).block_number = IF alog[p].group = 1 THEN PrevNumber ELSE -1
        /\ alog[p].number = BundleAt(p).block_number

C17_Witness ==
    /\ apc = "done"
    /\ \E p \in Builds : alog[p].group = 1
    /\ \E p \in Builds : alog[p].group = 2 /\ BundleAt(p).block_number = -1
    /\ \E p \in Builds : alog[p].group = 3

====
